---- MODULE Spec2Model ----
(***************************************************************************)
(* The stdio worker of docker-examples/workers/python/simple_worker.py:    *)
(* one process reads one JSON text from standard input, builds a Result    *)
(* and prints it as one JSON line on standard output.                      *)
(*                                                                         *)
(* Texts (standard input, a printed line) are sequences of JSON tokens;    *)
(* the input text is taken to be compact (no white space, one line), so    *)
(* the character offset of a token is the sum of the lengths of the tokens *)
(* before it.  Values are the Python objects json.load builds, tagged with *)
(* the name of their Python type.                                          *)
(***************************************************************************)
EXTENDS Integers, Sequences, FiniteSets, TLC

\* Integer literals of the input texts range over 0..MaxIntId.
MaxIntId == 1

\* Decimal exponent of the largest finite double (sys.float_info.max_10_exp).
MaxFloatExp10 == 308
\* Exponents of the two "1e<n>" literals of the input texts: one that fits a
\* double and one that does not.
SmallExp == 2
HugeExp == 400

-----------------------------------------------------------------------------
(* Tokens *)

Tok(k, s, n) == [k |-> k, s |-> s, n |-> n]
P(s) == Tok("punct", s, 0)
S(s) == Tok("str", s, 0)
IntTok(n) == Tok("num", "int", n)
\* the literal 1e<n>
ExpTok(n) == Tok("num", "exp", n)
\* the literal <n>.0
DecTok(n) == Tok("num", "dec", n)
\* null, true, false, and the two names only Python's codec knows: NaN, Infinity
Lit(s) == Tok("lit", s, 0)
\* a word that is no JSON token
Bad(s) == Tok("bad", s, 0)

TokText(t) ==
  CASE t.k = "str" -> "\"" \o t.s \o "\""
    [] t.k = "num" /\ t.s = "int" -> ToString(t.n)
    [] t.k = "num" /\ t.s = "exp" -> "1e" \o ToString(t.n)
    [] t.k = "num" /\ t.s = "dec" -> ToString(t.n) \o ".0"
    [] OTHER -> t.s

RECURSIVE CharPos(_, _)
\* offset of the i-th token (of the end of the text when i = Len(toks) + 1)
CharPos(toks, i) ==
  IF i <= 1 THEN 0 ELSE CharPos(toks, i - 1) + Len(TokText(toks[i - 1]))

-----------------------------------------------------------------------------
(* Values *)

PyNone == [t |-> "NoneType", v |-> ""]
PyBool(b) == [t |-> "bool", v |-> b]
PyInt(n) == [t |-> "int", v |-> n]
\* a float is inf, nan, or the finite value m * 10^e
PyFloat(kind, m, e) == [t |-> "float", v |-> [kind |-> kind, m |-> m, e |-> e]]
PyStr(s) == [t |-> "str", v |-> s]
PyList(elems) == [t |-> "list", v |-> elems]
\* a dict is the sequence of its <<key, value>> items in insertion order
PyDict(items) == [t |-> "dict", v |-> items]
\* the exact decimal number m * 10^e a numeric literal denotes
Number(m, e) == [t |-> "number", v |-> <<m, e>>]
\* a local variable that has not been assigned
Unset == [t |-> "unset", v |-> ""]

RECURSIVE Normalize(_, _)
Normalize(m, e) ==
  IF m # 0 /\ m % 10 = 0 THEN Normalize(m \div 10, e + 1) ELSE <<m, e>>

HasKey(d, key) == \E i \in 1..Len(d.v) : d.v[i][1] = key

\* dict.get(key, default)
DictGet(d, key, default) ==
  IF HasKey(d, key)
  THEN d.v[CHOOSE i \in 1..Len(d.v) : d.v[i][1] = key][2]
  ELSE default

\* d[key] = val while the decoder fills a dict: a repeated key keeps its place
DictSet(items, key, val) ==
  IF \E i \in 1..Len(items) : items[i][1] = key
  THEN [i \in 1..Len(items) |->
          IF items[i][1] = key THEN <<key, val>> ELSE items[i]]
  ELSE Append(items, <<key, val>>)

-----------------------------------------------------------------------------
(* json.load: the decoder *)

Ok(val, next) == [ok |-> TRUE, val |-> val, next |-> next]
Err(msg, at) == [ok |-> FALSE, msg |-> msg, at |-> at]

\* int(s) / float(s) of a numeric literal: float() overflows to inf
PyNumber(t) ==
  CASE t.s = "int" -> PyInt(t.n)
    [] t.s = "exp" -> IF t.n > MaxFloatExp10
                      THEN PyFloat("inf", 0, 0)
                      ELSE PyFloat("finite", 1, t.n)
    [] t.s = "dec" -> LET me == Normalize(t.n, 0)
                      IN PyFloat("finite", me[1], me[2])

\* the number a numeric literal denotes
ExactNumber(t) ==
  CASE t.s = "int" -> LET me == Normalize(t.n, 0) IN Number(me[1], me[2])
    [] t.s = "exp" -> Number(1, t.n)
    [] t.s = "dec" -> LET me == Normalize(t.n, 0) IN Number(me[1], me[2])

\* the constants of the decoder; read exactly, NaN and Infinity stay names
Literal(t, py) ==
  CASE t.s = "null" -> PyNone
    [] t.s = "true" -> PyBool(TRUE)
    [] t.s = "false" -> PyBool(FALSE)
    [] t.s = "NaN" -> IF py THEN PyFloat("nan", 0, 0)
                      ELSE [t |-> "nonfinite", v |-> "NaN"]
    [] t.s = "Infinity" -> IF py THEN PyFloat("inf", 0, 0)
                           ELSE [t |-> "nonfinite", v |-> "Infinity"]

RECURSIVE ParseValue(_, _, _)
RECURSIVE ParseMembers(_, _, _, _)
RECURSIVE ParseElems(_, _, _, _)

\* py = TRUE: numbers as Python builds them; py = FALSE: numbers read exactly
ParseValue(toks, i, py) ==
  IF i > Len(toks) THEN Err("Expecting value", i)
  ELSE LET t == toks[i] IN
    CASE t.k = "str" -> Ok(PyStr(t.s), i + 1)
      [] t.k = "num" -> Ok(IF py THEN PyNumber(t) ELSE ExactNumber(t), i + 1)
      [] t.k = "lit" -> Ok(Literal(t, py), i + 1)
      [] t = P("{") ->
           IF i + 1 <= Len(toks) /\ toks[i + 1] = P("}")
           THEN Ok(PyDict(<<>>), i + 2)
           ELSE ParseMembers(toks, i + 1, <<>>, py)
      [] t = P("[") ->
           IF i + 1 <= Len(toks) /\ toks[i + 1] = P("]")
           THEN Ok(PyList(<<>>), i + 2)
           ELSE ParseElems(toks, i + 1, <<>>, py)
      [] OTHER -> Err("Expecting value", i)

ParseMembers(toks, i, acc, py) ==
  IF i > Len(toks) \/ (i <= Len(toks) /\ toks[i].k # "str")
  THEN Err("Expecting property name enclosed in double quotes", i)
  ELSE IF i + 1 > Len(toks) \/ (i + 1 <= Len(toks) /\ toks[i + 1] # P(":"))
  THEN Err("Expecting ':' delimiter", i + 1)
  ELSE LET r == ParseValue(toks, i + 2, py) IN
    IF ~r.ok THEN r
    ELSE LET acc2 == DictSet(acc, toks[i].s, r.val)
             j == r.next
         IN IF j <= Len(toks) /\ toks[j] = P("}") THEN Ok(PyDict(acc2), j + 1)
            ELSE IF j <= Len(toks) /\ toks[j] = P(",")
            THEN ParseMembers(toks, j + 1, acc2, py)
            ELSE Err("Expecting ',' delimiter", j)

ParseElems(toks, i, acc, py) ==
  LET r == ParseValue(toks, i, py) IN
    IF ~r.ok THEN r
    ELSE LET acc2 == Append(acc, r.val)
             j == r.next
         IN IF j <= Len(toks) /\ toks[j] = P("]") THEN Ok(PyList(acc2), j + 1)
            ELSE IF j <= Len(toks) /\ toks[j] = P(",")
            THEN ParseElems(toks, j + 1, acc2, py)
            ELSE Err("Expecting ',' delimiter", j)

\* one value, then the end of the text
Decode(toks, py) ==
  LET r == ParseValue(toks, 1, py) IN
    IF r.ok /\ r.next <= Len(toks) THEN Err("Extra data", r.next) ELSE r

\* json.load(sys.stdin)
PyLoads(toks) == Decode(toks, TRUE)

\* str(e) of the JSONDecodeError of a one-line text
DecodeErrorText(toks, r) ==
  r.msg \o ": line 1 column " \o ToString(CharPos(toks, r.at) + 1)
        \o " (char " \o ToString(CharPos(toks, r.at)) \o ")"

-----------------------------------------------------------------------------
(* str(), repr() and json.dumps *)

FloatRepr(f) ==
  CASE f.kind = "inf" -> "inf"
    [] f.kind = "nan" -> "nan"
    [] OTHER -> ToString(f.m * 10 ^ f.e) \o ".0"

RECURSIVE PyRepr(_)
RECURSIVE ReprElems(_, _)
RECURSIVE ReprItems(_, _)

PyRepr(x) ==
  CASE x.t = "NoneType" -> "None"
    [] x.t = "bool" -> IF x.v THEN "True" ELSE "False"
    [] x.t = "int" -> ToString(x.v)
    [] x.t = "float" -> FloatRepr(x.v)
    [] x.t = "str" -> "'" \o x.v \o "'"
    [] x.t = "list" -> "[" \o ReprElems(x.v, 1) \o "]"
    [] x.t = "dict" -> "{" \o ReprItems(x.v, 1) \o "}"

ReprElems(elems, i) ==
  IF i > Len(elems) THEN ""
  ELSE (IF i > 1 THEN ", " ELSE "") \o PyRepr(elems[i]) \o ReprElems(elems, i + 1)

ReprItems(items, i) ==
  IF i > Len(items) THEN ""
  ELSE (IF i > 1 THEN ", " ELSE "") \o "'" \o items[i][1] \o "': "
       \o PyRepr(items[i][2]) \o ReprItems(items, i + 1)

\* what an f-string puts for {x}
Format(x) == IF x.t = "str" THEN x.v ELSE PyRepr(x)

RECURSIVE PyDumps(_)
RECURSIVE DumpElems(_, _)
RECURSIVE DumpItems(_, _)

\* json.dumps with its defaults (allow_nan=True)
PyDumps(x) ==
  CASE x.t = "NoneType" -> <<Lit("null")>>
    [] x.t = "bool" -> <<Lit(IF x.v THEN "true" ELSE "false")>>
    [] x.t = "int" -> <<IntTok(x.v)>>
    [] x.t = "float" ->
         (CASE x.v.kind = "inf" -> <<Lit("Infinity")>>
            [] x.v.kind = "nan" -> <<Lit("NaN")>>
            [] OTHER -> <<DecTok(x.v.m * 10 ^ x.v.e)>>)
    [] x.t = "str" -> <<S(x.v)>>
    [] x.t = "list" -> <<P("[")>> \o DumpElems(x.v, 1) \o <<P("]")>>
    [] x.t = "dict" -> <<P("{")>> \o DumpItems(x.v, 1) \o <<P("}")>>

DumpElems(elems, i) ==
  IF i > Len(elems) THEN <<>>
  ELSE (IF i > 1 THEN <<P(",")>> ELSE <<>>) \o PyDumps(elems[i])
       \o DumpElems(elems, i + 1)

DumpItems(items, i) ==
  IF i > Len(items) THEN <<>>
  ELSE (IF i > 1 THEN <<P(",")>> ELSE <<>>) \o <<S(items[i][1]), P(":")>>
       \o PyDumps(items[i][2]) \o DumpItems(items, i + 1)

-----------------------------------------------------------------------------
(* The texts standard input ranges over *)

\* a key that the text leaves out
Absent == <<>>

Member(key, text) == IF text = Absent THEN <<>> ELSE << <<key, text>> >>

RECURSIVE MembersText(_, _)
MembersText(members, i) ==
  IF i > Len(members) THEN <<>>
  ELSE (IF i > 1 THEN <<P(",")>> ELSE <<>>) \o <<S(members[i][1]), P(":")>>
       \o members[i][2] \o MembersText(members, i + 1)

ObjectText(members) == <<P("{")>> \o MembersText(members, 1) \o <<P("}")>>

IntTexts == {<<IntTok(n)>> : n \in 0..MaxIntId}

\* values that are no JSON object
NonObjectTexts ==
  {<<S("not-an-object")>>, <<Lit("null")>>, <<Lit("true")>>, <<P("["), P("]")>>,
   <<P("["), IntTok(0), P(","), S("x"), P("]")>>,
   <<ExpTok(SmallExp)>>, <<ExpTok(HugeExp)>>, <<Lit("NaN")>>} \cup IntTexts

NameTexts ==
  {Absent, <<S("Alice")>>, <<S("Bob")>>, <<Lit("null")>>, <<Lit("false")>>,
   <<P("["), Lit("null"), P(","), S("x"), P("]")>>,
   ObjectText(<< <<"k", <<ExpTok(SmallExp)>> >> >>),
   <<ExpTok(SmallExp)>>, <<ExpTok(HugeExp)>>, <<Lit("NaN")>>} \cup IntTexts

InputDataTexts ==
  {Absent}
  \cup {ObjectText(Member("name", n) \o Member("extra", e)) :
          n \in NameTexts, e \in {Absent, <<IntTok(0)>>}}
  \cup NonObjectTexts

TaskIdTexts ==
  {Absent, <<S("t1")>>, <<Lit("null")>>, <<ExpTok(SmallExp)>>, <<ExpTok(HugeExp)>>}
  \cup IntTexts

WorkflowInstanceIdTexts == {Absent, <<S("w1")>>, <<ExpTok(HugeExp)>>}

\* a key the worker does not know
WorkflowIdTexts == {Absent, <<S("wX")>>}

TaskTypeTexts == {Absent, <<S("greet")>>}

ObjectStdins ==
  {ObjectText(Member("taskId", a) \o Member("workflowInstanceId", b)
              \o Member("workflowId", c) \o Member("taskType", d)
              \o Member("inputData", e)) :
     a \in TaskIdTexts, b \in WorkflowInstanceIdTexts, c \in WorkflowIdTexts,
     d \in TaskTypeTexts, e \in InputDataTexts}

\* texts the decoder rejects
MalformedStdins ==
  {<<>>,
   <<Bad("garbage")>>,
   <<P("{")>>,
   <<P("{"), P("}"), P("{"), P("}")>>,
   <<P("{"), S("taskId"), S("t1"), P("}")>>,
   <<P("{"), S("taskId"), P(":")>>,
   <<P("{"), S("taskId"), P(":"), S("t1"), P(","), P("}")>>,
   <<P("{"), S("taskId"), P(":"), S("t1")>>,
   <<P("["), IntTok(0), P(","), P("]")>>,
   <<P("["), IntTok(0), IntTok(0), P("]")>>}

Stdins == ObjectStdins \cup NonObjectTexts \cup MalformedStdins

-----------------------------------------------------------------------------
(* The process *)

VARIABLES
  stdin,        \* the text on standard input
  stdout,       \* the lines printed so far
  pc,           \* the statement the process is at
  task, input_data, name, task_id, workflow_id, task_type, message, result,
  exc,          \* the exception raised, if any
  unhandled,    \* TRUE while the exception has no handler yet
  exit_status   \* -1 while the process runs

vars == <<stdin, stdout, pc, task, input_data, name, task_id, workflow_id,
          task_type, message, result, exc, unhandled, exit_status>>

locals == <<task, input_data, name, task_id, workflow_id, task_type,
            message, result>>

NoExc == [type |-> "", msg |-> ""]

Init ==
  /\ stdin \in Stdins
  /\ stdout = <<>>
  /\ pc = "load"
  /\ task = Unset /\ input_data = Unset /\ name = Unset
  /\ task_id = Unset /\ workflow_id = Unset /\ task_type = Unset
  /\ message = Unset /\ result = Unset
  /\ exc = NoExc
  /\ unhandled = FALSE
  /\ exit_status = -1

\* an exception leaves main() for the except clause of line 46
Raise(type, msg) ==
  /\ exc' = [type |-> type, msg |-> msg]
  /\ unhandled' = TRUE
  /\ pc' = "except"

\* x.get on an object that is no dict
NoGetText(x) == "'" \o x.t \o "' object has no attribute 'get'"

\* the parse error leaves the process: json.load outside the try
LoadTaskUnguarded ==
  /\ pc = "load"
  /\ LET r == PyLoads(stdin) IN
       IF r.ok
       THEN /\ task' = r.val
            /\ pc' = "get_input_data"
            /\ UNCHANGED <<exc, unhandled>>
       ELSE /\ exc' = [type |-> "JSONDecodeError", msg |-> DecodeErrorText(stdin, r)]
            /\ unhandled' = TRUE
            /\ pc' = "exit"
            /\ UNCHANGED task
  /\ UNCHANGED <<stdin, stdout, input_data, name, task_id, workflow_id,
                 task_type, message, result, exit_status>>

\* task = json.load(sys.stdin)
LoadTask ==
  /\ pc = "load"
  /\ LET r == PyLoads(stdin) IN
       IF r.ok
       THEN /\ task' = r.val
            /\ pc' = "get_input_data"
            /\ UNCHANGED <<exc, unhandled>>
       ELSE /\ Raise("JSONDecodeError", DecodeErrorText(stdin, r))
            /\ UNCHANGED task
  /\ UNCHANGED <<stdin, stdout, input_data, name, task_id, workflow_id,
                 task_type, message, result, exit_status>>

\* input_data = task.get('inputData', {})
GetInputData ==
  /\ pc = "get_input_data"
  /\ IF task.t = "dict"
     THEN /\ input_data' = DictGet(task, "inputData", PyDict(<<>>))
          /\ pc' = "get_name"
          /\ UNCHANGED <<exc, unhandled>>
     ELSE /\ Raise("AttributeError", NoGetText(task))
          /\ UNCHANGED input_data
  /\ UNCHANGED <<stdin, stdout, task, name, task_id, workflow_id, task_type,
                 message, result, exit_status>>

\* the name looked up in the task, not in its inputData
GetNameFromTask ==
  /\ pc = "get_name"
  /\ IF input_data.t = "dict"
     THEN /\ name' = DictGet(task, "name", PyStr("World"))
          /\ pc' = "get_metadata"
          /\ UNCHANGED <<exc, unhandled>>
     ELSE /\ Raise("AttributeError", NoGetText(input_data))
          /\ UNCHANGED name
  /\ UNCHANGED <<stdin, stdout, task, input_data, task_id, workflow_id,
                 task_type, message, result, exit_status>>

\* name = input_data.get('name', 'World')
GetName ==
  /\ pc = "get_name"
  /\ IF input_data.t = "dict"
     THEN /\ name' = DictGet(input_data, "name", PyStr("World"))
          /\ pc' = "get_metadata"
          /\ UNCHANGED <<exc, unhandled>>
     ELSE /\ Raise("AttributeError", NoGetText(input_data))
          /\ UNCHANGED name
  /\ UNCHANGED <<stdin, stdout, task, input_data, task_id, workflow_id,
                 task_type, message, result, exit_status>>

\* task['taskId'] instead of task.get('taskId', 'unknown'): a KeyError when absent
GetMetadataSubscript ==
  /\ pc = "get_metadata"
  /\ IF HasKey(task, "taskId")
     THEN /\ task_id' = DictGet(task, "taskId", PyStr("unknown"))
          /\ workflow_id' = DictGet(task, "workflowInstanceId", PyStr("unknown"))
          /\ task_type' = DictGet(task, "taskType", PyStr("unknown"))
          /\ pc' = "process"
          /\ UNCHANGED <<exc, unhandled>>
     ELSE /\ Raise("KeyError", "'taskId'")
          /\ UNCHANGED <<task_id, workflow_id, task_type>>
  /\ UNCHANGED <<stdin, stdout, task, input_data, name, message, result,
                 exit_status>>

\* task_id, workflow_id, task_type = task.get(..., 'unknown')
GetMetadata ==
  /\ pc = "get_metadata"
  /\ task_id' = DictGet(task, "taskId", PyStr("unknown"))
  /\ workflow_id' = DictGet(task, "workflowInstanceId", PyStr("unknown"))
  /\ task_type' = DictGet(task, "taskType", PyStr("unknown"))
  /\ pc' = "process"
  /\ UNCHANGED <<stdin, stdout, task, input_data, name, message, result, exc,
                 unhandled, exit_status>>

\* message = f"Hello, {name}!"
ProcessTask ==
  /\ pc = "process"
  /\ message' = PyStr("Hello, " \o Format(name) \o "!")
  /\ pc' = "build_result"
  /\ UNCHANGED <<stdin, stdout, task, input_data, name, task_id, workflow_id,
                 task_type, result, exc, unhandled, exit_status>>

\* the workflow line left out of the logs
CompletedResultTwoLogs ==
  PyDict(<< <<"status", PyStr("COMPLETED")>>,
            <<"output", PyDict(<< <<"message", message>>,
                                  <<"taskId", task_id>>,
                                  <<"workflowId", workflow_id>> >>)>>,
            <<"logs", PyList(<<
               PyStr("Processing task " \o Format(task_id) \o " of type "
                     \o Format(task_type)),
               PyStr("Generated greeting for " \o Format(name)) >>)>> >>)

\* the dict of lines 27-39
CompletedResult ==
  PyDict(<< <<"status", PyStr("COMPLETED")>>,
            <<"output", PyDict(<< <<"message", message>>,
                                  <<"taskId", task_id>>,
                                  <<"workflowId", workflow_id>> >>)>>,
            <<"logs", PyList(<<
               PyStr("Processing task " \o Format(task_id) \o " of type "
                     \o Format(task_type)),
               PyStr("Workflow: " \o Format(workflow_id)),
               PyStr("Generated greeting for " \o Format(name)) >>)>> >>)

BuildResult ==
  /\ pc = "build_result"
  /\ result' = CompletedResult
  /\ pc' = "print"
  /\ UNCHANGED <<stdin, stdout, task, input_data, name, task_id, workflow_id,
                 task_type, message, exc, unhandled, exit_status>>

\* print(json.dumps(result)), the last statement of main()
PrintResult ==
  /\ pc = "print"
  /\ stdout' = Append(stdout, PyDumps(result))
  /\ pc' = "exit"
  /\ UNCHANGED <<stdin, locals, exc, unhandled, exit_status>>

\* a fixed reason instead of str(e)
FailedResultFixedReason ==
  PyDict(<< <<"status", PyStr("FAILED")>>,
            <<"reason", PyStr("error")>>,
            <<"logs", PyList(<<PyStr("Error processing task: " \o exc.msg)>>)>> >>)

\* an empty output carried along with the reason
FailedResultWithOutput ==
  PyDict(<< <<"status", PyStr("FAILED")>>,
            <<"output", PyDict(<<>>)>>,
            <<"reason", PyStr(exc.msg)>>,
            <<"logs", PyList(<<PyStr("Error processing task: " \o exc.msg)>>)>> >>)

\* the dict of lines 48-52
FailedResult ==
  PyDict(<< <<"status", PyStr("FAILED")>>,
            <<"reason", PyStr(exc.msg)>>,
            <<"logs", PyList(<<PyStr("Error processing task: " \o exc.msg)>>)>> >>)

\* the handler prints and raises again
HandleExceptionReraise ==
  /\ pc = "except"
  /\ result' = FailedResult
  /\ stdout' = Append(stdout, PyDumps(FailedResult))
  /\ pc' = "exit"
  /\ UNCHANGED <<stdin, task, input_data, name, task_id, workflow_id,
                 task_type, message, exc, unhandled, exit_status>>

\* except Exception as e: build the failure result and print it
HandleException ==
  /\ pc = "except"
  /\ result' = FailedResult
  /\ stdout' = Append(stdout, PyDumps(FailedResult))
  /\ unhandled' = FALSE
  /\ pc' = "exit"
  /\ UNCHANGED <<stdin, task, input_data, name, task_id, workflow_id,
                 task_type, message, exc, exit_status>>

\* the end of the script: status 0, or 1 when an exception reached the top
Exit ==
  /\ pc = "exit"
  /\ exit_status' = IF unhandled THEN 1 ELSE 0
  /\ pc' = "done"
  /\ UNCHANGED <<stdin, stdout, locals, exc, unhandled>>

Next ==
  \/ LoadTask
  \/ GetInputData
  \/ GetName
  \/ GetMetadata
  \/ ProcessTask
  \/ BuildResult
  \/ PrintResult
  \/ HandleException
  \/ Exit

Spec == Init /\ [][Next]_vars

\* the input texts of the runs checked for termination
LiveStdins ==
  {ObjectText(Member("taskId", a) \o Member("workflowInstanceId", b)
              \o Member("inputData", e)) :
     a \in {Absent, <<S("t1")>>, <<ExpTok(HugeExp)>>},
     b \in {Absent, <<S("w1")>>},
     e \in {Absent, <<P("{"), P("}")>>,
            ObjectText(<< <<"name", <<S("Alice")>> >> >>),
            <<S("not-an-object")>>, <<Lit("null")>>}}
  \cup NonObjectTexts \cup MalformedStdins

InitLive == Init /\ stdin \in LiveStdins

\* the interpreter runs the script to its end
FairSpec == InitLive /\ [][Next]_vars /\ WF_vars(Next)

-----------------------------------------------------------------------------
(* Reading the texts back *)

\* a text read with its numbers kept exact
Read(toks) == Decode(toks, FALSE)

\* a text of the JSON grammar (RFC 8259): NaN and Infinity are not part of it
IsJSON(toks) ==
  /\ Read(toks).ok
  /\ \A i \in 1..Len(toks) :
       toks[i].k = "lit" => toks[i].s \notin {"NaN", "Infinity"}

IsResult(line) == Read(line).ok /\ Read(line).val.t = "dict"
Get(d, key) == DictGet(d, key, Unset)
Keys(d) == {d.v[i][1] : i \in 1..Len(d.v)}
Status(line) == Get(Read(line).val, "status")
Completed(line) == IsResult(line) /\ Status(line) = PyStr("COMPLETED")
Failed(line) == IsResult(line) /\ Status(line) = PyStr("FAILED")
Output(line) == Get(Read(line).val, "output")
Logs(line) == Get(Read(line).val, "logs")

\* the task as the worker's decoder sees it
In == PyLoads(stdin)
TaskIsObject == In.ok /\ In.val.t = "dict"
InputDataPresent == TaskIsObject /\ HasKey(In.val, "inputData")
InputDataUsable ==
  TaskIsObject /\ (InputDataPresent => Get(In.val, "inputData").t = "dict")
InName ==
  IF InputDataPresent /\ InputDataUsable
  THEN DictGet(Get(In.val, "inputData"), "name", PyStr("World"))
  ELSE PyStr("World")

-----------------------------------------------------------------------------
(* Claims *)

\* C1: whatever standard input holds, the run prints exactly one line (never
\* two, and one once it has ended), and the line is a well-formed JSON object.
C1_OneWellFormedLine ==
  /\ Len(stdout) <= 1
  /\ pc = "done" =>
       /\ Len(stdout) = 1
       /\ IsJSON(stdout[1])
       /\ Read(stdout[1]).val.t = "dict"

\* C2: in a COMPLETED Result output.taskId is the input's taskId and
\* output.workflowId is the input's workflowInstanceId ("unknown" when the key
\* is absent); the input key workflowId is not read.
C2_IdsEchoed ==
  (pc = "done" /\ Len(stdout) = 1 /\ Completed(stdout[1])) =>
     /\ Get(Output(stdout[1]), "taskId")
          = DictGet(Read(stdin).val, "taskId", PyStr("unknown"))
     /\ Get(Output(stdout[1]), "workflowId")
          = DictGet(Read(stdin).val, "workflowInstanceId", PyStr("unknown"))

\* C3: for an object task whose inputData is absent or an object, the message
\* is "Hello, " + name + "!", name being inputData.name (as an f-string renders
\* it) when present and "World" otherwise.
C3_Greeting ==
  (pc = "done" /\ InputDataUsable) =>
     /\ Len(stdout) = 1
     /\ IsResult(stdout[1])
     /\ Get(Output(stdout[1]), "message")
          = PyStr("Hello, " \o Format(InName) \o "!")
     /\ (InputDataPresent /\ HasKey(Get(In.val, "inputData"), "name")) \/
          Get(Output(stdout[1]), "message") = PyStr("Hello, World!")

C3_Witness ==
  /\ pc = "done"
  /\ InName = PyStr("Alice")
  /\ Len(stdout) = 1
  /\ Get(Output(stdout[1]), "message") = PyStr("Hello, Alice!")

\* C4: an error raised after the parse (inputData present and not an object)
\* ends in one FAILED Result on standard output whose reason is the text of
\* the error and whose only log entry describes that error; no COMPLETED
\* Result is printed.
C4_ErrorAfterParse ==
  /\ (pc \in {"exit", "done"} /\ exc.type \notin {"", "JSONDecodeError"}) =>
       /\ Len(stdout) = 1
       /\ Failed(stdout[1])
       /\ Get(Read(stdout[1]).val, "reason") = PyStr(exc.msg)
       /\ Logs(stdout[1])
            = PyList(<<PyStr("Error processing task: " \o exc.msg)>>)
  /\ (pc = "done" /\ InputDataPresent /\ ~InputDataUsable) =>
       /\ exc.type = "AttributeError"
       /\ exc.msg = "'" \o Get(In.val, "inputData").t
                        \o "' object has no attribute 'get'"
       /\ \A i \in 1..Len(stdout) : ~Completed(stdout[i])

C4_Witness ==
  /\ pc = "done"
  /\ InputDataPresent
  /\ Get(In.val, "inputData") = PyStr("not-an-object")
  /\ Len(stdout) = 1
  /\ Failed(stdout[1])
  /\ Get(Read(stdout[1]).val, "reason")
       = PyStr("'str' object has no attribute 'get'")

\* C5: for an object task whose inputData is absent or an object, whatever
\* keys are absent and whatever the present ones hold, the Result is COMPLETED
\* and every absent field shows its default.
C5_Defaults ==
  (pc = "done" /\ InputDataUsable) =>
     /\ Len(stdout) = 1
     /\ Completed(stdout[1])
     /\ ~HasKey(In.val, "taskId") =>
          Get(Output(stdout[1]), "taskId") = PyStr("unknown")
     /\ ~HasKey(In.val, "workflowInstanceId") =>
          Get(Output(stdout[1]), "workflowId") = PyStr("unknown")
     /\ (~HasKey(In.val, "taskId") /\ ~HasKey(In.val, "taskType")) =>
          Logs(stdout[1]).v[1] = PyStr("Processing task unknown of type unknown")
     /\ (~InputDataPresent \/ ~HasKey(Get(In.val, "inputData"), "name")) =>
          /\ Get(Output(stdout[1]), "message") = PyStr("Hello, World!")
          /\ Logs(stdout[1]).v[3] = PyStr("Generated greeting for World")

C5_Witness ==
  /\ pc = "done"
  /\ stdin = <<P("{"), P("}")>>
  /\ Len(stdout) = 1
  /\ Completed(stdout[1])
  /\ Output(stdout[1])
       = PyDict(<< <<"message", PyStr("Hello, World!")>>,
                   <<"taskId", PyStr("unknown")>>,
                   <<"workflowId", PyStr("unknown")>> >>)

\* C6: a COMPLETED Result has exactly 3 log entries, in order the task id and
\* type processed, the workflow id, the name greeted; a FAILED one has 1.
C6_LogCounts ==
  \A i \in 1..Len(stdout) :
     /\ IsResult(stdout[i])
     /\ Completed(stdout[i]) =>
          Logs(stdout[i]) = PyList(<<
             PyStr("Processing task "
                   \o Format(DictGet(In.val, "taskId", PyStr("unknown")))
                   \o " of type "
                   \o Format(DictGet(In.val, "taskType", PyStr("unknown")))),
             PyStr("Workflow: "
                   \o Format(DictGet(In.val, "workflowInstanceId",
                                     PyStr("unknown")))),
             PyStr("Generated greeting for " \o Format(InName)) >>)
     /\ Failed(stdout[i]) =>
          Logs(stdout[i]).t = "list" /\ Len(Logs(stdout[i]).v) = 1

C6_Witness ==
  /\ pc = "done"
  /\ Len(stdout) = 1
  /\ Completed(stdout[1])
  /\ Logs(stdout[1]) = PyList(<<PyStr("Processing task t1 of type greet"),
                               PyStr("Workflow: w1"),
                               PyStr("Generated greeting for Bob")>>)

\* C8: every run ends, after its one write, and it ends with the same exit
\* status whether the Result is COMPLETED or FAILED.
C8_Terminates ==
  /\ <>(pc = "done")
  /\ [](pc = "done" => Len(stdout) = 1 /\ exit_status = 0)

C8_Witness ==
  /\ pc = "done"
  /\ exit_status = 0
  /\ Len(stdout) = 1
  /\ Failed(stdout[1])
  /\ exc.type = "AttributeError"

\* C9: a Result's status is COMPLETED or FAILED; it is COMPLETED exactly when
\* the Result has an output with the keys message, taskId, workflowId and no
\* reason, and FAILED exactly when it has a reason and no output.
C9_ResultShape ==
  \A i \in 1..Len(stdout) :
     LET r == Read(stdout[i]).val IN
       /\ IsResult(stdout[i])
       /\ Completed(stdout[i]) \/ Failed(stdout[i])
       /\ Completed(stdout[i]) <=>
            /\ HasKey(r, "output")
            /\ Get(r, "output").t = "dict"
            /\ Keys(Get(r, "output")) = {"message", "taskId", "workflowId"}
            /\ ~HasKey(r, "reason")
       /\ Failed(stdout[i]) <=> (HasKey(r, "reason") /\ ~HasKey(r, "output"))

C9_Witness ==
  /\ Len(stdout) = 1
  /\ Failed(stdout[1])
  /\ Keys(Read(stdout[1]).val) = {"status", "reason", "logs"}
  /\ Get(Read(stdout[1]).val, "reason").t = "str"

\* C10: a text the decoder rejects, or one that is no object, does not let the
\* error out of the process: the run goes from the parse to the handler,
\* prints one FAILED Result and ends normally.
C10_ParseErrorsCaught ==
  ~TaskIsObject =>
     /\ pc \in {"load", "get_input_data", "except", "exit", "done"}
     /\ pc \in {"exit", "done"} =>
          Len(stdout) = 1 /\ Failed(stdout[1]) /\ ~unhandled
     /\ pc = "done" => exit_status = 0

C10_Witness ==
  /\ pc = "done"
  /\ ~In.ok
  /\ exc.type = "JSONDecodeError"
  /\ Len(stdout) = 1
  /\ Failed(stdout[1])
  /\ exit_status = 0

====
